---------------------------- MODULE Spec2Model ----------------------------
(***************************************************************************)
(* lisp-rs: the tokenizer (lexer.rs), the parser (parser.rs), the          *)
(* tree-walking evaluator with its parent-linked environments (eval.rs)    *)
(* and the read-eval-print loop (main.rs).                                 *)
(*                                                                         *)
(* A Rust String is a sequence of one-character strings.  An Object is a   *)
(* record tagged by its variant.  An environment handle                    *)
(* (Rc<RefCell<Env>>) is the sequence of the local tables it reaches: the  *)
(* root's table first, the handle's own table last.  Env::extend appends   *)
(* a table, a returning call drops it.  A Result is a record whose tag is  *)
(* "Ok" or "Err"; the tag "Panic" is a Rust panic (an index out of range,  *)
(* a division by zero) and "Overflow" the exhaustion of the call stack.    *)
(* The integers of the model stay far inside i64, so no operation wraps.   *)
(***************************************************************************)
EXTENDS Integers, Sequences, FiniteSets, TLC

VARIABLES pc, env, input, result

vars == <<pc, env, input, result>>

(***************************************************************************)
(* Bounds of the model.                                                    *)
(***************************************************************************)
\* Deepest chain of environments (root included) in which a call may still
\* open a child; a call below that depth has exhausted the stack.
MaxDepth == 5
\* Longest token sequence handed to parse in SpecParse.
MaxTokens == 5
\* Operand literals of the generated operator forms are -MaxInt..MaxInt.
MaxInt == 3

(***************************************************************************)
(* Strings                                                                 *)
(***************************************************************************)
s_define == <<"d", "e", "f", "i", "n", "e">>
s_if == <<"i", "f">>
s_lambda == <<"l", "a", "m", "b", "d", "a">>
s_exit == <<"e", "x", "i", "t">>
s_plus == <<"+">>
s_minus == <<"-">>
s_times == <<"*">>
s_div == <<"/">>
s_lt == <<"<">>
s_gt == <<">">>
s_eq == <<"=">>
s_ne == <<"!", "=">>

(***************************************************************************)
(* parser.rs: enum Object                                                  *)
(***************************************************************************)
Void == [t |-> "Void"]
Integer(n) == [t |-> "Integer", n |-> n]
Bool(b) == [t |-> "Bool", b |-> b]
Symbol(s) == [t |-> "Symbol", s |-> s]
Lambda(params, body) == [t |-> "Lambda", params |-> params, body |-> body]
List(items) == [t |-> "List", items |-> items]

(***************************************************************************)
(* Result<Object, String>, with the environment as the evaluation left it  *)
(* and the function applications the evaluation made (history).            *)
(***************************************************************************)
Ok(v, e, calls) == [tag |-> "Ok", val |-> v, env |-> e, calls |-> calls]
Err(msg, arg, e, calls) ==
    [tag |-> "Err", val |-> [msg |-> msg, arg |-> arg], env |-> e, calls |-> calls]
Panic(msg, e, calls) ==
    [tag |-> "Panic", val |-> [msg |-> msg, arg |-> <<>>], env |-> e, calls |-> calls]
Overflow(e, calls) ==
    [tag |-> "Overflow", val |-> [msg |-> "stack overflow", arg |-> <<>>],
     env |-> e, calls |-> calls]
\* The ? operator and an unwinding panic: the failure as it is, with the
\* applications made before it.
Fail(r, before) == [r EXCEPT !.calls = before \o r.calls]

(***************************************************************************)
(* eval.rs: struct Env                                                     *)
(***************************************************************************)
EmptyVars == <<>>
\* Env::new
new == <<EmptyVars>>
Has(vs, name) == name \in DOMAIN vs
None == [some |-> FALSE]
Some(v) == [some |-> TRUE, v |-> v]
\* A faulty variant: the local table, then the root's: the callers between are skipped.
get_local_or_root(e, name) ==
    IF e = <<>> THEN None
    ELSE IF Has(e[Len(e)], name) THEN Some(e[Len(e)][name])
    ELSE IF Has(e[1], name) THEN Some(e[1][name])
    ELSE None

\* Env::get: the local table, then the parent, recursively.
RECURSIVE get(_, _)
get(e, name) ==
    IF e = <<>> THEN None
    ELSE IF Has(e[Len(e)], name) THEN Some(e[Len(e)][name])
    ELSE get(SubSeq(e, 1, Len(e) - 1), name)
\* HashMap::insert
insert(vs, name, val) ==
    [n \in DOMAIN vs \cup {name} |-> IF n = name THEN val ELSE vs[n]]
\* A faulty variant: a child writes through to its parent's table.
set_through(e, name, val) ==
    IF Len(e) > 1
    THEN [e EXCEPT ![Len(e) - 1] = insert(e[Len(e) - 1], name, val)]
    ELSE [e EXCEPT ![Len(e)] = insert(e[Len(e)], name, val)]

\* Env::set: the local table only.
set(e, name, val) == [e EXCEPT ![Len(e)] = insert(e[Len(e)], name, val)]
\* Env::extend: a new environment with no bindings, whose parent is `parent`.
extend(parent) == Append(parent, EmptyVars)
\* The parent of an environment (dropping the child of a finished call).
parent(e) == SubSeq(e, 1, Len(e) - 1)


(***************************************************************************)
(* lexer.rs                                                                *)
(***************************************************************************)
LParen == [k |-> "LParen"]
RParen == [k |-> "RParen"]
TInteger(n) == [k |-> "Integer", n |-> n]
TSymbol(s) == [k |-> "Symbol", s |-> s]

\* str::replace of a one-character pattern.
RECURSIVE replace(_, _, _)
replace(program, from, to) ==
    IF program = <<>> THEN <<>>
    ELSE IF Head(program) = from THEN to \o replace(Tail(program), from, to)
    ELSE <<Head(program)>> \o replace(Tail(program), from, to)

is_whitespace(c) == c \in {" ", "\t"}

\* str::split_whitespace: the maximal runs of characters that are no white
\* space, in order.  `word` is the run being read.
RECURSIVE split_whitespace_from(_, _, _)
split_whitespace_from(program, word, words) ==
    IF program = <<>>
    THEN IF word = <<>> THEN words ELSE Append(words, word)
    ELSE IF is_whitespace(Head(program))
    THEN split_whitespace_from(Tail(program), <<>>,
                               IF word = <<>> THEN words ELSE Append(words, word))
    ELSE split_whitespace_from(Tail(program), Append(word, Head(program)), words)

split_whitespace(program) == split_whitespace_from(program, <<>>, <<>>)

digit ==
    "0" :> 0 @@ "1" :> 1 @@ "2" :> 2 @@ "3" :> 3 @@ "4" :> 4 @@
    "5" :> 5 @@ "6" :> 6 @@ "7" :> 7 @@ "8" :> 8 @@ "9" :> 9

RECURSIVE digits_value(_, _)
digits_value(ds, acc) ==
    IF ds = <<>> THEN acc
    ELSE digits_value(Tail(ds), 10 * acc + digit[Head(ds)])

\* word.parse::<i64>(): an optional sign, then one decimal digit or more and
\* nothing else.  (The words of the model are short: none leaves i64.)
parse_i64(word) ==
    LET signed == word # <<>> /\ Head(word) \in {"+", "-"}
        ds == IF signed THEN Tail(word) ELSE word
    IN  IF ds = <<>> \/ \E i \in 1 .. Len(ds) : ds[i] \notin DOMAIN digit
        THEN [ok |-> FALSE]
        ELSE [ok |-> TRUE,
              n |-> IF signed /\ Head(word) = "-" THEN -digits_value(ds, 0)
                    ELSE digits_value(ds, 0)]

token_of(word) ==
    IF word = <<"(">> THEN LParen
    ELSE IF word = <<")">> THEN RParen
    ELSE LET num == parse_i64(word)
         IN  IF num.ok THEN TInteger(num.n) ELSE TSymbol(word)

\* tokenize: never an Err.
tokenize(program) ==
    LET padded == replace(replace(program, "(", <<" ", "(", " ">>),
                          ")", <<" ", ")", " ">>)
        words == split_whitespace(padded)
    IN  [tag |-> "Ok", val |-> [i \in 1 .. Len(words) |-> token_of(words[i])]]

(***************************************************************************)
(* parser.rs: parse and parse_list.  The tokens are reversed into a Vec    *)
(* that is popped from its end.  A result carries the tokens left.         *)
(***************************************************************************)
POk(obj, tokens) == [tag |-> "Ok", val |-> obj, tokens |-> tokens]
PErr(msg, found) == [tag |-> "Err", val |-> [msg |-> msg, found |-> found]]

reverse(tokens) == [i \in 1 .. Len(tokens) |-> tokens[Len(tokens) + 1 - i]]
\* Vec::pop
top(tokens) == tokens[Len(tokens)]
popped(tokens) == SubSeq(tokens, 1, Len(tokens) - 1)

RECURSIVE parse_list(_)
RECURSIVE parse_items(_, _)

\* The while loop of parse_list, with the list built so far.
parse_items(tokens, list) ==
    IF tokens = <<>> THEN POk(List(list), tokens)
    ELSE
    LET tok == top(tokens)
        rest == popped(tokens)
    IN  CASE tok.k = "Integer" -> parse_items(rest, Append(list, Integer(tok.n)))
          [] tok.k = "Symbol" -> parse_items(rest, Append(list, Symbol(tok.s)))
          [] tok.k = "LParen" ->
               LET sub_list == parse_list(Append(rest, LParen))
               IN  IF sub_list.tag # "Ok" THEN sub_list
                   ELSE parse_items(sub_list.tokens, Append(list, sub_list.val))
          [] tok.k = "RParen" -> POk(List(list), rest)

parse_list(tokens) ==
    IF tokens = <<>> THEN PErr("Expected LParen, found", <<>>)
    ELSE IF top(tokens) # LParen THEN PErr("Expected LParen, found", <<top(tokens)>>)
    ELSE parse_items(popped(tokens), <<>>)

parse(tokens) == parse_list(reverse(tokens))

(***************************************************************************)
(* eval.rs: the evaluator.  Rust indexes from 0, TLA+ from 1: list[i] of   *)
(* the source is list[i + 1] here.                                         *)
(***************************************************************************)
RECURSIVE eval(_, _)

\* A faulty variant: the quotient rounded down (floor division).
div_floor(a, b) ==
    LET abs(n) == IF n < 0 THEN -n ELSE n
        q == abs(a) \div abs(b)
    IN  IF (a < 0) = (b < 0) THEN q
        ELSE IF q * abs(b) = abs(a) THEN -q ELSE -q - 1

\* i64 division truncates toward zero.
div_i64(a, b) ==
    LET abs(n) == IF n < 0 THEN -n ELSE n
        q == abs(a) \div abs(b)
    IN  IF (a < 0) = (b < 0) THEN q ELSE -q

eval_symbol(s, e) ==
    LET val == get(e, s)
    IN  IF val.some THEN Ok(val.v, e, <<>>)
        ELSE Err("Unbound symbol", s, e, <<>>)

\* A faulty variant: the name is bound (to Void) before its value is evaluated, so a
\* define whose value fails leaves a binding.
eval_define_eager(list, e) ==
    IF Len(list) # 3
    THEN Err("Invalid number of arguments for define", <<>>, e, <<>>)
    ELSE IF list[2].t # "Symbol"
    THEN Err("Invalid define", <<>>, e, <<>>)
    ELSE LET val == eval(list[3], set(e, list[2].s, Void))
         IN  IF val.tag # "Ok" THEN val
             ELSE Ok(Void, set(val.env, list[2].s, val.val), val.calls)

eval_define(list, e) ==
    IF Len(list) # 3
    THEN Err("Invalid number of arguments for define", <<>>, e, <<>>)
    ELSE IF list[2].t # "Symbol"
    THEN Err("Invalid define", <<>>, e, <<>>)
    ELSE LET val == eval(list[3], e)
         IN  IF val.tag # "Ok" THEN val
             ELSE Ok(Void, set(val.env, list[2].s, val.val), val.calls)

\* The match on the operator, with both operands integers.
apply_op(s, left_val, right_val, e, calls) ==
    IF s = s_plus THEN Ok(Integer(left_val + right_val), e, calls)
    ELSE IF s = s_minus THEN Ok(Integer(left_val - right_val), e, calls)
    ELSE IF s = s_times THEN Ok(Integer(left_val * right_val), e, calls)
    ELSE IF s = s_div
    THEN IF right_val = 0 THEN Panic("attempt to divide by zero", e, calls)
         ELSE Ok(Integer(div_i64(left_val, right_val)), e, calls)
    ELSE IF s = s_lt THEN Ok(Bool(left_val < right_val), e, calls)
    ELSE IF s = s_gt THEN Ok(Bool(left_val > right_val), e, calls)
    ELSE IF s = s_eq THEN Ok(Bool(left_val = right_val), e, calls)
    ELSE IF s = s_ne THEN Ok(Bool(left_val # right_val), e, calls)
    ELSE Err("Invalid infix operator", s, e, calls)

eval_binary_op(list, e) ==
    IF Len(list) # 3
    THEN Err("Invalid number of arguments for infix operator", <<>>, e, <<>>)
    ELSE
    LET operator == list[1]
        left == eval(list[2], e)
    IN  IF left.tag # "Ok" THEN left
        ELSE
        LET right == eval(list[3], left.env)
        IN  IF right.tag # "Ok" THEN Fail(right, left.calls)
            ELSE
            LET calls == left.calls \o right.calls
            IN  IF left.val.t # "Integer"
                THEN Err("Left operand must be an integer", <<>>, right.env, calls)
                ELSE IF right.val.t # "Integer"
                THEN Err("Right operand must be an integer", <<>>, right.env, calls)
                ELSE IF operator.t = "Symbol"
                THEN apply_op(operator.s, left.val.n, right.val.n, right.env, calls)
                ELSE Err("Operator must be a symbol", <<>>, right.env, calls)

\* A faulty variant: both branches are evaluated and the taken one's value returned.
eval_if_both(list, e) ==
    IF Len(list) # 4
    THEN Err("Invalid number of arguments for if statement", <<>>, e, <<>>)
    ELSE
    LET cond_obj == eval(list[2], e)
    IN  IF cond_obj.tag # "Ok" THEN cond_obj
        ELSE IF cond_obj.val.t # "Bool"
        THEN Err("Condition must be boolean", <<>>, cond_obj.env, cond_obj.calls)
        ELSE
        LET then_val == eval(list[3], cond_obj.env)
            else_val == eval(list[4], then_val.env)
        IN  [(IF cond_obj.val.b THEN then_val ELSE else_val) EXCEPT
                !.env = else_val.env,
                !.calls = cond_obj.calls \o then_val.calls \o else_val.calls]

eval_if(list, e) ==
    IF Len(list) # 4
    THEN Err("Invalid number of arguments for if statement", <<>>, e, <<>>)
    ELSE
    LET cond_obj == eval(list[2], e)
    IN  IF cond_obj.tag # "Ok" THEN cond_obj
        ELSE IF cond_obj.val.t # "Bool"
        THEN Err("Condition must be boolean", <<>>, cond_obj.env, cond_obj.calls)
        ELSE Fail(eval(IF cond_obj.val.b THEN list[3] ELSE list[4], cond_obj.env),
                  cond_obj.calls)

\* The parameter names of a lambda form, or the first one that is no symbol.
RECURSIVE lambda_params(_, _, _)
lambda_params(items, i, acc) ==
    IF i > Len(items) THEN [ok |-> TRUE, params |-> acc]
    ELSE IF items[i].t = "Symbol"
    THEN lambda_params(items, i + 1, Append(acc, items[i].s))
    ELSE [ok |-> FALSE, params |-> acc]

\* The function takes no environment: the caller keeps its own.
eval_function_definition(list) ==
    IF Len(list) < 2 THEN Panic("index out of bounds", <<>>, <<>>)
    ELSE IF list[2].t # "List" THEN Err("Invalid lambda", <<>>, <<>>, <<>>)
    ELSE
    LET params == lambda_params(list[2].items, 1, <<>>)
    IN  IF ~params.ok THEN Err("Invalid lambda parameter", <<>>, <<>>, <<>>)
        ELSE IF Len(list) < 3 THEN Panic("index out of bounds", <<>>, <<>>)
        ELSE IF list[3].t # "List" THEN Err("Invalid lambad", <<>>, <<>>, <<>>)
        ELSE Ok(Lambda(params.params, list[3].items), <<>>, <<>>)

\* The loop over the parameters: argument i is evaluated in the caller's
\* environment, the parent of new_env, and bound in new_env's own table.
RECURSIVE bind_params(_, _, _, _, _)
bind_params(params, list, i, new_env, calls) ==
    IF i > Len(params) THEN Ok(Void, new_env, calls)
    ELSE IF i + 1 > Len(list) THEN Panic("index out of bounds", new_env, calls)
    ELSE
    LET val == eval(list[i + 1], parent(new_env))
    IN  IF val.tag # "Ok"
        THEN [Fail(val, calls) EXCEPT
                 !.env = Append(val.env, new_env[Len(new_env)])]
        ELSE bind_params(params, list, i + 1,
                         set(Append(val.env, new_env[Len(new_env)]),
                             params[i], val.val),
                         calls \o val.calls)

\* One function application, for the history of the evaluation: the caller's
\* environment when the body started and when it ended, and the call's own
\* table when the body ended.
Application(s, lambda, list, caller, ended, ran, tag) ==
    [fn |-> s, nparams |-> Len(lambda.params), nargs |-> Len(list) - 1,
     depth |-> Len(caller), caller |-> caller, after |-> parent(ended),
     locals |-> ended[Len(ended)], ran |-> ran, tag |-> tag]

eval_function_call(s, list, e) ==
    LET lambda == get(e, s)
    IN  IF ~lambda.some THEN Err("Unbound symbol", s, e, <<>>)
        ELSE IF lambda.v.t # "Lambda" THEN Err("Not a lambda", s, e, <<>>)
        ELSE IF Len(e) >= MaxDepth THEN Overflow(e, <<>>)
        ELSE
        LET args == bind_params(lambda.v.params, list, 1, extend(e), <<>>)
        IN  IF args.tag # "Ok"
            THEN [args EXCEPT
                     !.env = parent(args.env),
                     !.calls = Append(args.calls,
                         Application(s, lambda.v, list, parent(args.env),
                                     args.env, FALSE, args.tag))]
            ELSE
            LET new_env == args.env
                r == eval(List(lambda.v.body), new_env)
            IN  [r EXCEPT
                    !.env = parent(r.env),
                    !.calls = Append(args.calls \o r.calls,
                        Application(s, lambda.v, list, parent(new_env),
                                    r.env, TRUE, r.tag))]

RECURSIVE eval_items(_, _, _, _, _)

\* A faulty variant: the Void results are kept.
eval_items_unfiltered(list, i, e, new_list, calls) ==
    IF i > Len(list) THEN Ok(List(new_list), e, calls)
    ELSE
    LET res == eval(list[i], e)
    IN  IF res.tag # "Ok" THEN Fail(res, calls)
        ELSE eval_items(list, i + 1, res.env, Append(new_list, res.val),
                        calls \o res.calls)

\* The map, filter and collect of a list whose head is no symbol: lazy, so
\* the first Err ends the iteration.
eval_items(list, i, e, new_list, calls) ==
    IF i > Len(list) THEN Ok(List(new_list), e, calls)
    ELSE
    LET res == eval(list[i], e)
    IN  IF res.tag # "Ok" THEN Fail(res, calls)
        ELSE eval_items(list, i + 1, res.env,
                        IF res.val.t = "Void" THEN new_list
                        ELSE Append(new_list, res.val),
                        calls \o res.calls)

eval_list(list, e) ==
    IF Len(list) = 0 THEN Panic("index out of bounds", e, <<>>)
    ELSE
    LET head == list[1]
    IN  IF head.t = "Symbol"
        THEN IF head.s \in {s_plus, s_minus, s_times, s_div, s_lt, s_gt, s_eq, s_ne}
             THEN eval_binary_op(list, e)
             ELSE IF head.s = s_define THEN eval_define(list, e)
             ELSE IF head.s = s_if THEN eval_if(list, e)
             ELSE IF head.s = s_lambda
             THEN [eval_function_definition(list) EXCEPT !.env = e]
             ELSE eval_function_call(head.s, list, e)
        ELSE eval_items(list, 1, e, <<>>, <<>>)

eval(obj, e) ==
    CASE obj.t = "Void" -> Ok(Void, e, <<>>)
      [] obj.t = "Lambda" -> Ok(Void, e, <<>>)
      [] obj.t = "Bool" -> Ok(obj, e, <<>>)
      [] obj.t = "Integer" -> Ok(Integer(obj.n), e, <<>>)
      [] obj.t = "Symbol" -> eval_symbol(obj.s, e)
      [] obj.t = "List" -> eval_list(obj.items, e)

(***************************************************************************)
(* The expressions handed to eval: trees as parse builds them (lists of    *)
(* integers, symbols and lists).                                           *)
(***************************************************************************)
Sym(c) == Symbol(<<c>>)
L(items) == List(items)
Define(name, value) == L(<<Symbol(s_define), name, value>>)
If(c, th, el) == L(<<Symbol(s_if), c, th, el>>)
Fn(params, body) == L(<<Symbol(s_lambda), L(params), body>>)
Op(s, l, r) == L(<<Symbol(s), l, r>>)

X == Sym("x")
N == Sym("n")
A == Sym("a")
B == Sym("b")
K == Sym("k")
V == Sym("v")
Z == Sym("z")
Q == Sym("q")
SQ == Symbol(<<"s", "q">>)
FACT == Symbol(<<"f", "a", "c", "t">>)
F == Sym("f")
G == Sym("g")
H == Sym("h")
T == Sym("t")
LOC == Symbol(<<"l", "o", "c">>)
OUT == Symbol(<<"o", "u", "t">>)
IN_ == Symbol(<<"i", "n">>)
LOOP == Symbol(<<"l", "o", "o", "p">>)

\* (lambda (n) (* n n))
SqFn == Fn(<<N>>, Op(s_times, N, N))
\* (lambda (n) (if (< n 1) 1 (* n (fact (- n 1)))))
FactFn ==
    Fn(<<N>>, If(Op(s_lt, N, Integer(1)), Integer(1),
                 Op(s_times, N, L(<<FACT, Op(s_minus, N, Integer(1))>>))))
\* (lambda () (+ x 0)): x is free in the body
FFn == Fn(<<>>, Op(s_plus, X, Integer(0)))
\* (lambda (x) (f))
GFn == Fn(<<X>>, L(<<F>>))
\* (lambda (x) (sq (+ x 1)))
HFn == Fn(<<X>>, L(<<SQ, Op(s_plus, X, Integer(1))>>))
\* (lambda (a) (< 0 1))
TFn == Fn(<<A>>, Op(s_lt, Integer(0), Integer(1)))
\* (lambda (a) ((define z a) (+ z 1)))
LocFn == Fn(<<A>>, L(<<Define(Z, A), Op(s_plus, Z, Integer(1))>>))
\* (lambda (b) ((define v 9) (define a 9) (+ b v)))
InFn == Fn(<<B>>, L(<<Define(V, Integer(9)), Define(A, Integer(9)), Op(s_plus, B, V)>>))
\* (lambda (a) ((define v 1) (in a) (+ v a)))
OutFn == Fn(<<A>>, L(<<Define(V, Integer(1)), L(<<IN_, A>>), Op(s_plus, V, A)>>))
\* (lambda () (loop))
LoopFn == Fn(<<>>, L(<<LOOP>>))

\* One line that binds every function of the session.
Prelude ==
    L(<<Define(SQ, SqFn), Define(FACT, FactFn), Define(F, FFn), Define(G, GFn),
        Define(H, HFn), Define(T, TFn), Define(LOC, LocFn), Define(IN_, InFn),
        Define(OUT, OutFn), Define(LOOP, LoopFn)>>)

Operators == {s_plus, s_minus, s_times, s_div, s_lt, s_gt, s_eq, s_ne}
Literals == {Integer(i) : i \in -MaxInt .. MaxInt}

\* (op l r) with l a literal, x or (* x -2) and r a literal, and the operator
\* forms of 1, 2 and 4 items
OperatorForms ==
    {Op(s, l, r) : s \in Operators,
                   l \in Literals \cup {X, Op(s_times, X, Integer(-2))},
                   r \in Literals}
    \cup {L(<<Symbol(s)>>) : s \in Operators}
    \cup {L(<<Symbol(s), Q>>) : s \in Operators}
    \cup {L(<<Symbol(s), Integer(1), Integer(2), L(<<>>)>>) : s \in Operators}

\* (if c (define a 1) (define b 2)) and (if c (define b 3) (define a 4))
Conditions ==
    {Op(s_lt, X, Integer(2)), Op(s_gt, X, Integer(1)),
     Op(s_eq, Integer(0), Integer(0)), Op(s_ne, Integer(0), Integer(0))}
IfForms ==
    {If(c, Define(A, Integer(1)), Define(B, Integer(2))) : c \in Conditions}
    \cup {If(c, Define(B, Integer(3)), Define(A, Integer(4))) : c \in Conditions}
\* ((define k 0) (if (t (define k (+ k 1))) (define a 1) (define b 2)) (+ k 0))
CondOnce ==
    L(<<Define(K, Integer(0)),
        If(L(<<T, Define(K, Op(s_plus, K, Integer(1)))>>),
           Define(A, Integer(1)), Define(B, Integer(2))),
        Op(s_plus, K, Integer(0))>>)
\* (if 1 (define a 1) (define b 2))   (if (< 0 1) 5)
IfNotBool == If(Integer(1), Define(A, Integer(1)), Define(B, Integer(2)))
IfShort == L(<<Symbol(s_if), Op(s_lt, Integer(0), Integer(1)), Integer(5)>>)

\* Applications: (sq i), (fact i), (g i), (h i), (loc i), (out i), (f), (loop)
Arguments == 0 .. MaxDepth - 2
Applications ==
    {L(<<fn, Integer(i)>>) : fn \in {SQ, FACT, G, H, LOC, OUT}, i \in Arguments}
    \cup {L(<<F>>), L(<<LOOP>>)}
\* (sq)   (sq 2 3)   (g)   (f 1)   (q 1)   (x 1)   (sq q)
SqNoArgument == L(<<SQ>>)
SqTwoArguments == L(<<SQ, Integer(2), Integer(3)>>)
GNoArgument == L(<<G>>)
FOneArgument == L(<<F, Integer(1)>>)
Misapplications ==
    {SqNoArgument, SqTwoArguments, GNoArgument, FOneArgument,
     L(<<Q, Integer(1)>>), L(<<X, Integer(1)>>), L(<<SQ, Q>>)}

\* ()   (lambda)   (lambda n)   (lambda (n))   (lambda (1) (n))   (lambda (n) n)
EmptyList == L(<<>>)
LambdaForms ==
    {L(<<Symbol(s_lambda)>>), L(<<Symbol(s_lambda), N>>),
     L(<<Symbol(s_lambda), L(<<N>>)>>),
     L(<<Symbol(s_lambda), L(<<Integer(1)>>), L(<<N>>)>>),
     L(<<Symbol(s_lambda), L(<<N>>), N>>)}

\* ((define a 1) (+ a q))
FailAfterDefine == L(<<Define(A, Integer(1)), Op(s_plus, A, Q)>>)
\* (define b (+ q 1))
FailInDefine == Define(B, Op(s_plus, Q, Integer(1)))
\* ((define a 4) (define b (+ q 1)) (define k 2))
FailBetweenDefines ==
    L(<<Define(A, Integer(4)), Define(B, Op(s_plus, Q, Integer(1))),
        Define(K, Integer(2))>>)
\* (define 1 2)   (define a)
DefineForms == {Define(Integer(1), Integer(2)), L(<<Symbol(s_define), A>>)}

\* ((define k 1) (define k (+ k 1)) (+ k 0) (< k 0))
Sequence ==
    L(<<Define(K, Integer(1)), Define(K, Op(s_plus, K, Integer(1))),
        Op(s_plus, K, Integer(0)), Op(s_lt, K, Integer(0))>>)
\* (1 2 3)   ((+ 1 2) x)   ((define a 1) q (define b 3) v)   (1 ())
Plain == L(<<Integer(1), Integer(2), Integer(3)>>)
PlainWithSymbol == L(<<Op(s_plus, Integer(1), Integer(2)), X>>)
FirstFailure == L(<<Define(A, Integer(1)), Q, Define(B, Integer(3)), V>>)
PlainWithEmpty == L(<<Integer(1), EmptyList>>)

Programs ==
    {Prelude, EmptyList, CondOnce, IfNotBool, IfShort, FailAfterDefine,
     FailInDefine, FailBetweenDefines, Sequence, Plain, PlainWithSymbol,
     FirstFailure, PlainWithEmpty}
    \cup {Define(X, Integer(i)) : i \in {1, 2}}
    \cup OperatorForms \cup IfForms \cup Applications \cup Misapplications
    \cup LambdaForms \cup DefineForms

(***************************************************************************)
(* SpecEval: eval called again and again on one persisted root             *)
(* environment, as main does with each parsed line.                        *)
(***************************************************************************)
NoInput == <<>>
NoResult == [tag |-> "None"]

InitCall ==
    /\ pc = "idle"
    /\ env = new
    /\ input = NoInput
    /\ result = NoResult

\* eval(&ast, &mut env)
Call(obj) ==
    /\ pc = "idle"
    /\ LET r == eval(obj, env)
       IN  /\ result' = r
           /\ env' = r.env
           /\ pc' = IF r.tag \in {"Panic", "Overflow"} THEN "aborted" ELSE "returned"
    /\ input' = obj

\* The caller takes the Result and comes back with the next expression.
Return ==
    /\ pc = "returned"
    /\ pc' = "idle"
    /\ input' = NoInput
    /\ result' = NoResult
    /\ UNCHANGED env

NextEval == (\E obj \in Programs : Call(obj)) \/ Return

SpecEval == InitCall /\ [][NextEval]_vars

(***************************************************************************)
(* SpecParse: parse applied to token sequences.                            *)
(***************************************************************************)
Tokens == {LParen, RParen, TInteger(1), TSymbol(s_plus)}
TokenSeqs == UNION {[1 .. len -> Tokens] : len \in 0 .. MaxTokens}

\* parse(&mut tokens)
Parse(tokens) ==
    /\ pc = "idle"
    /\ result' = parse(tokens)
    /\ input' = tokens
    /\ pc' = "returned"
    /\ UNCHANGED env

NextParse == (\E tokens \in TokenSeqs : Parse(tokens)) \/ Return

SpecParse == InitCall /\ [][NextParse]_vars

(***************************************************************************)
(* Spec: main.rs, the read-eval-print loop over lines of text.             *)
(***************************************************************************)
\* One text from the pieces of a line.
RECURSIVE concat(_)
concat(pieces) ==
    IF pieces = <<>> THEN <<>> ELSE Head(pieces) \o concat(Tail(pieces))

Lines ==
    { \* (define x 1)   (define x 2)
      concat(<<<<"(">>, s_define, <<" ", "x", " ", "1", ")">>>>),
      concat(<<<<"(">>, s_define, <<" ", "x", " ", "2", ")">>>>),
      \* (define y (+ x 1))
      concat(<<<<"(">>, s_define, <<" ", "y", " ", "(", "+", " ", "x", " ", "1", ")", ")">>>>),
      \* (define sq (lambda (n) (* n n)))
      concat(<<<<"(">>, s_define, <<" ", "s", "q", " ", "(">>, s_lambda,
               <<" ", "(", "n", ")", " ", "(", "*", " ", "n", " ", "n", ")", ")", ")">>>>),
      \* (sq y)   (+ 1 2)   (-  x -12)   (/ 7 0)   (q)   (+1 2)
      <<"(", "s", "q", " ", "y", ")">>,
      <<"(", "+", " ", "1", " ", "2", ")">>,
      <<"(", "-", " ", " ", "x", "\t", "-", "1", "2", ")">>,
      <<"(", "/", " ", "7", " ", "0", ")">>,
      <<"(", "q", ")">>,
      <<"(", "+", "1", " ", "2", ")">>,
      \* (+ x   ()   )   x   the empty line   " exit"   (+ 1 2) 3
      <<"(", "+", " ", "x">>,
      <<"(", ")">>,
      <<")">>,
      <<"x">>,
      <<>>,
      <<" ">> \o s_exit,
      <<"(", "+", " ", "1", " ", "2", ")", " ", "3">>,
      s_exit }

Eof == <<"<eof>">>

Init ==
    /\ pc = "running"
    /\ env = new
    /\ input = NoInput
    /\ result = NoResult

\* One turn of the loop on a line that is not "exit": tokenize, parse, eval
\* and println, each ? returning its Err from main.
ReadEvalPrint(line) ==
    /\ pc = "running"
    /\ line # s_exit
    /\ input' = line
    /\ LET tokens == tokenize(line)
       IN  IF tokens.tag # "Ok"
           THEN /\ result' = [stage |-> "tokenize", tag |-> "Err", val |-> tokens.val]
                /\ pc' = "failed"
                /\ UNCHANGED env
           ELSE
           LET ast == parse(tokens.val)
           IN  IF ast.tag # "Ok"
               THEN /\ result' = [stage |-> "parse", tag |-> "Err", val |-> ast.val]
                    /\ pc' = "failed"
                    /\ UNCHANGED env
               ELSE
               LET val == eval(ast.val, env)
               IN  /\ result' = [stage |-> "eval", tag |-> val.tag, val |-> val.val]
                   /\ env' = val.env
                   /\ pc' = CASE val.tag = "Ok" -> "running"
                              [] val.tag = "Err" -> "failed"
                              [] OTHER -> "aborted"

\* The line "exit": break, "Good bye", Ok(()).
Exit(line) ==
    /\ pc = "running"
    /\ line = s_exit
    /\ input' = line
    /\ pc' = "exited"
    /\ result' = NoResult
    /\ UNCHANGED env

\* read_line gives no Input: the loop ends, "Good bye", Ok(()).
EndOfInput ==
    /\ pc = "running"
    /\ input' = Eof
    /\ pc' = "exited"
    /\ result' = NoResult
    /\ UNCHANGED env

Next ==
    \/ \E line \in Lines : ReadEvalPrint(line)
    \/ \E line \in Lines : Exit(line)
    \/ EndOfInput

Spec == Init /\ [][Next]_vars

(***************************************************************************)
(* The claims.                                                             *)
(***************************************************************************)
Finished == pc \in {"returned", "aborted"}
Root == env[1]
BoundAtRoot(sym) == Has(Root, sym.s)

\* The open parentheses less the close parentheses among the first j tokens.
Balance(tokens, j) ==
    Cardinality({i \in 1 .. j : tokens[i] = LParen})
    - Cardinality({i \in 1 .. j : tokens[i] = RParen})
\* A list is opened and the tokens run out before the parenthesis closing it.
Unterminated(tokens) ==
    /\ tokens # <<>>
    /\ tokens[1] = LParen
    /\ \A j \in 1 .. Len(tokens) : Balance(tokens, j) > 0

\* C1: whenever the tokens run out before the close-parenthesis of a list
\* that has been opened, parse returns a ParseError, never an incomplete
\* List as a success.
C1_UnterminatedListIsParseError ==
    (pc = "returned" /\ Unterminated(input)) => result.tag = "Err"

\* C2: eval of a tree that parse can return ends with a value or an error
\* value and never aborts: the empty list, a lambda form of fewer than 3
\* items, a call with fewer arguments than parameters and a division by 0
\* each yield an error result.
C2_EvalNeverAborts ==
    /\ pc # "aborted"
    /\ (pc = "returned"
        /\ (\/ input \in {EmptyList, SqNoArgument}
            \/ input \in LambdaForms /\ Len(input.items) < 3
            \/ input \in {Op(s_div, l, Integer(0)) : l \in Literals}))
       => result.tag = "Err"

\* C3: after a line whose tokenizing, parsing or evaluation fails the
\* session does not terminate but goes on reading lines against the same
\* root environment; it ends only on the line "exit" or at the end of input.
C3_SessionSurvivesErrors ==
    /\ result.tag = "Err" => pc = "running"
    /\ pc # "running" => input \in {s_exit, Eof}

\* C4: applying a name bound to a Lambda to a number of arguments other than
\* its number of parameters fails with an error and does not evaluate the
\* body: no surplus argument is dropped, no missing one made up.
C4_ArityMismatchIsError ==
    Finished =>
        \A i \in DOMAIN result.calls :
            result.calls[i].nargs # result.calls[i].nparams
                => ~result.calls[i].ran /\ result.tag = "Err"

IsOperatorForm(obj) ==
    /\ obj.t = "List"
    /\ Len(obj.items) > 0
    /\ obj.items[1].t = "Symbol"
    /\ obj.items[1].s \in Operators
\* An operand that denotes an integer: a literal, a name the root binds to an
\* integer, or a product of two such operands.
RECURSIVE IsInt(_)
IsInt(obj) ==
    \/ obj.t = "Integer"
    \/ obj.t = "Symbol" /\ BoundAtRoot(obj) /\ Root[obj.s].t = "Integer"
    \/ /\ obj.t = "List"
       /\ Len(obj.items) = 3
       /\ obj.items[1] = Symbol(s_times)
       /\ IsInt(obj.items[2])
       /\ IsInt(obj.items[3])
RECURSIVE Denote(_)
Denote(obj) ==
    IF obj.t = "Integer" THEN obj.n
    ELSE IF obj.t = "Symbol" THEN Root[obj.s].n
    ELSE Denote(obj.items[2]) * Denote(obj.items[3])
\* The quotient rounded toward zero: the remainder is smaller than the
\* divisor and has the sign of the dividend.
TruncQuotient(i, j) ==
    CHOOSE d \in -(MaxInt + 4) .. MaxInt + 4 :
        LET rem == i - d * j
        IN  /\ (IF rem < 0 THEN -rem ELSE rem) < (IF j < 0 THEN -j ELSE j)
            /\ rem = 0 \/ (rem < 0) = (i < 0)
Expected(s, i, j) ==
    CASE s = s_plus -> Integer(i + j)
      [] s = s_minus -> Integer(i - j)
      [] s = s_times -> Integer(i * j)
      [] s = s_div -> Integer(TruncQuotient(i, j))
      [] s = s_lt -> Bool(i < j)
      [] s = s_gt -> Bool(i > j)
      [] s = s_eq -> Bool(i = j)
      [] s = s_ne -> Bool(i # j)

\* C5: (op x y) with operands that are integers i and j (j # 0 for /) yields
\* Integer(i op j) for + - * /, with / truncating toward zero, and
\* Bool(i op j) for < > = !=; an operator form of any other number of items
\* fails with the arity error.
C5_BinaryOperators ==
    (Finished /\ IsOperatorForm(input)) =>
        IF Len(input.items) = 3
        THEN LET s == input.items[1].s
                 l == input.items[2]
                 r == input.items[3]
             IN  (IsInt(l) /\ IsInt(r) /\ ~(s = s_div /\ Denote(r) = 0))
                 => /\ result.tag = "Ok"
                    /\ result.val = Expected(s, Denote(l), Denote(r))
        ELSE /\ result.tag = "Err"
             /\ result.val.msg = "Invalid number of arguments for infix operator"

\* (/ -3 2) has yielded -1.
C5_Witness ==
    /\ pc = "returned"
    /\ input = Op(s_div, Integer(-3), Integer(2))
    /\ result.tag = "Ok"
    /\ result.val = Integer(-1)

\* The truth of a condition (op l r) at the root environment.
Holds(c) == Expected(c.items[1].s, Denote(c.items[2]), Denote(c.items[3])).b
\* `after` is `before` with the names of `written` bound as in `written`.
OnlyWrites(before, after, written) ==
    /\ Len(after) = Len(before)
    /\ DOMAIN after[1] = DOMAIN before[1] \cup DOMAIN written
    /\ \A nm \in DOMAIN after[1] :
           after[1][nm] = IF nm \in DOMAIN written THEN written[nm] ELSE before[1][nm]
Called == pc = "idle" /\ pc' = "returned"

\* C6: (if c t e) evaluates the condition once and then exactly one of t and
\* e: a define of the branch not taken leaves no binding, and the environment
\* after the if differs from the one before only by the effects of c and of
\* the taken branch.
C6_IfEvaluatesOneBranch ==
    [][/\ (Called /\ input' \in IfForms /\ IsInt(input'.items[2].items[2]))
          => LET taken == IF Holds(input'.items[2]) THEN input'.items[3]
                          ELSE input'.items[4]
             IN  /\ result'.tag = "Ok"
                 /\ result'.val = Void
                 /\ OnlyWrites(env, env', taken.items[2].s :> taken.items[3])
       /\ (Called /\ input' = CondOnce /\ BoundAtRoot(T))
          => /\ result'.tag = "Ok"
             /\ result'.val = List(<<Integer(1)>>)
             /\ OnlyWrites(env, env', K.s :> Integer(1) @@ A.s :> Integer(1))
      ]_vars

\* With x = 1, (if (> x 1) (define a 1) (define b 2)) has bound b and not a.
C6_Witness ==
    /\ pc = "returned"
    /\ input = If(Op(s_gt, X, Integer(1)), Define(A, Integer(1)), Define(B, Integer(2)))
    /\ BoundAtRoot(X) /\ Root[X.s] = Integer(1)
    /\ result.tag = "Ok"
    /\ BoundAtRoot(B) /\ Root[B.s] = Integer(2)
    /\ ~BoundAtRoot(A)

IsApplicationOf(obj, fn) ==
    /\ obj.t = "List"
    /\ Len(obj.items) = 2
    /\ obj.items[1] = fn
    /\ obj.items[2].t = "Integer"

\* C7: a define executed in a function body writes only to that call's own
\* environment: for every call the tables of the caller and of all its
\* ancestors are the same when the body has ended as when it started, and the
\* name defined in the body is not resolvable by the caller afterwards.
C7_DefineInBodyIsLocal ==
    Finished =>
        /\ \A i \in DOMAIN result.calls :
               result.calls[i].ran => result.calls[i].after = result.calls[i].caller
        /\ ~BoundAtRoot(Z) /\ ~BoundAtRoot(V)
        /\ (IsApplicationOf(input, OUT) /\ result.tag = "Ok")
           => result.val = List(<<List(<<Integer(input.items[2].n + 9)>>),
                                  Integer(1 + input.items[2].n)>>)

\* (loc 2) has returned: its body bound z in the call's own table, and the
\* root does not resolve z.
C7_Witness ==
    /\ pc = "returned"
    /\ input = L(<<LOC, Integer(2)>>)
    /\ result.tag = "Ok"
    /\ Len(result.calls) = 1
    /\ result.calls[1].ran
    /\ Has(result.calls[1].locals, Z.s)
    /\ result.calls[1].locals[Z.s] = Integer(2)
    /\ ~BoundAtRoot(Z)

RECURSIVE Factorial(_)
Factorial(i) == IF i < 1 THEN 1 ELSE i * Factorial(i - 1)

\* C8: the child environment of an application has the call-site environment
\* as its parent and the arguments are evaluated in the caller's environment:
\* a free name of the body resolves along the caller's chain at call time,
\* and a lambda calling itself by its name resolves the name at every depth.
C8_CallSiteScoping ==
    (Finished /\ BoundAtRoot(G)) =>
        /\ IsApplicationOf(input, G)
           => result.tag = "Ok" /\ result.val = input.items[2]
        /\ IsApplicationOf(input, H)
           => /\ result.tag = "Ok"
              /\ result.val = Integer((input.items[2].n + 1) * (input.items[2].n + 1))
        /\ input = L(<<F>>)
           => IF BoundAtRoot(X) THEN result.tag = "Ok" /\ result.val = Root[X.s]
              ELSE result.tag = "Err" /\ result.val = [msg |-> "Unbound symbol", arg |-> X.s]
        /\ IsApplicationOf(input, FACT)
           => /\ result.tag = "Ok"
              /\ result.val = Integer(Factorial(input.items[2].n))
              /\ Len(result.calls) = input.items[2].n + 1
              /\ \A i \in DOMAIN result.calls :
                     /\ result.calls[i].fn = FACT.s
                     /\ result.calls[i].depth = Len(result.calls) + 1 - i
                     /\ result.calls[i].ran
                     /\ result.calls[i].tag = "Ok"

\* With x = 1 at the root, (g 2) has yielded 2: the x of f's body is g's.
C8_Witness ==
    /\ pc = "returned"
    /\ input = L(<<G, Integer(2)>>)
    /\ BoundAtRoot(X) /\ Root[X.s] = Integer(1)
    /\ result.tag = "Ok"
    /\ result.val = Integer(2)
    /\ Len(result.calls) = 2

UnboundQ == [msg |-> "Unbound symbol", arg |-> Q.s]

\* C9: when an evaluation fails, the bindings of the defines that completed
\* before the failing step stay (no rollback) and a define whose value
\* expression fails writes nothing: the environment after the failure is the
\* one before it plus exactly those defines.
C9_NoRollback ==
    [][Called =>
        /\ input' = FailAfterDefine
           => /\ result'.tag = "Err" /\ result'.val = UnboundQ
              /\ OnlyWrites(env, env', A.s :> Integer(1))
        /\ input' = FailInDefine
           => /\ result'.tag = "Err" /\ result'.val = UnboundQ
              /\ env' = env
        /\ input' = FailBetweenDefines
           => /\ result'.tag = "Err" /\ result'.val = UnboundQ
              /\ OnlyWrites(env, env', A.s :> Integer(4))
        /\ (input' = CondOnce /\ ~BoundAtRoot(T))
           => /\ result'.tag = "Err"
              /\ OnlyWrites(env, env', K.s :> Integer(0))
      ]_vars

\* ((define a 4) (define b (+ q 1)) (define k 2)) has failed: a is bound,
\* b and k are not.
C9_Witness ==
    /\ pc = "returned"
    /\ input = FailBetweenDefines
    /\ result.tag = "Err"
    /\ BoundAtRoot(A) /\ Root[A.s] = Integer(4)
    /\ ~BoundAtRoot(B)
    /\ ~BoundAtRoot(K)

\* C10: a non-empty list whose head is no symbol evaluates its items left to
\* right in the current environment and yields the List of the results that
\* are not Void, in order; a body of defines and one last expression yields a
\* one-element List, not the bare value; the first item that fails makes the
\* whole evaluation fail with that error.
C10_ListOfNonVoidResults ==
    Finished =>
        /\ (/\ input.t = "List"
            /\ Len(input.items) > 0
            /\ input.items[1].t # "Symbol"
            /\ result.tag = "Ok")
           => /\ result.val.t = "List"
              /\ Len(result.val.items) <= Len(input.items)
              /\ \A i \in DOMAIN result.val.items : result.val.items[i] # Void
        /\ input = Sequence
           => result.tag = "Ok" /\ result.val = List(<<Integer(2), Bool(FALSE)>>)
        /\ input = Plain
           => /\ result.tag = "Ok"
              /\ result.val = List(<<Integer(1), Integer(2), Integer(3)>>)
        /\ input = Prelude
           => result.tag = "Ok" /\ result.val = List(<<>>)
        /\ input = PlainWithSymbol
           => IF BoundAtRoot(X)
              THEN result.tag = "Ok" /\ result.val = List(<<Integer(3), Root[X.s]>>)
              ELSE result.tag = "Err" /\ result.val = [msg |-> "Unbound symbol", arg |-> X.s]
        /\ input = FirstFailure
           => /\ result.tag = "Err" /\ result.val = UnboundQ
              /\ BoundAtRoot(A) /\ Root[A.s] = Integer(1)
        /\ (IsApplicationOf(input, LOC) /\ BoundAtRoot(LOC))
           => /\ result.tag = "Ok"
              /\ result.val = List(<<Integer(input.items[2].n + 1)>>)

\* ((define k 1) (define k (+ k 1)) (+ k 0) (< k 0)) has yielded (2 false).
C10_Witness ==
    /\ pc = "returned"
    /\ input = Sequence
    /\ result.tag = "Ok"
    /\ result.val = List(<<Integer(2), Bool(FALSE)>>)
    /\ Root[K.s] = Integer(2)

=============================================================================
